---- MODULE Spec2Model ----
(***************************************************************************)
(* Model of UUxtConstrainableComponent (UxtConstrainableComponent.cpp):    *)
(* the min/max scale policy of a manipulated actor and the bookkeeping of  *)
(* the transform constraints that apply to it.                             *)
(*                                                                         *)
(* Numbers.  The component computes with floats; the model computes with   *)
(* exact rationals <<n, d>> (d > 0, lowest terms), so the products and     *)
(* quotients of the mode conversion are really computed and a round trip   *)
(* is something the check can refute.  Float rounding is not modelled.     *)
(*                                                                         *)
(* Environment.  Owner scales are positive.  PostEditChangeProperty is an  *)
(* editor callback (WITH_EDITOR) and is taken at design time only, before  *)
(* BeginPlay; the setters may be called at any time.  A constraint         *)
(* component removed from the owner stays alive, so a stale entry of       *)
(* ActiveConstraints can still be invoked.  The constraint components      *)
(* themselves (type, masks, effect) are declared outside this file and are *)
(* represented by three fixed ones.                                        *)
(***************************************************************************)
EXTENDS Integers, Sequences, FiniteSets, TLC

\* ------------------------------------------------------------------ bounds

\* MaxScale may not grow beyond this value: conversions and setters that
\* would store a larger MaxScale are not taken.
MaxScaleCap == 3

\* SelectedConstraints holds at most this many references.
MaxSelected == 3

\* ------------------------------------------------------------- rationals

Abs(n) == IF n < 0 THEN -n ELSE n

RECURSIVE Gcd(_, _)
Gcd(a, b) == IF b = 0 THEN a ELSE Gcd(b, a % b)

Rat(n, d) == LET g == Gcd(Abs(n), d) IN <<n \div g, d \div g>>

RMul(a, b) == Rat(a[1] * b[1], a[2] * b[2])

\* Division by a positive rational.
RDiv(a, b) == Rat(a[1] * b[2], a[2] * b[1])

RLt(a, b) == a[1] * b[2] < b[1] * a[2]

RLe(a, b) == a[1] * b[2] <= b[1] * a[2]

\* FMath::Clamp(X, Min, Max): X < Min ? Min : X < Max ? X : Max
FMath_Clamp(X, Min, Max) == IF RLt(X, Min) THEN Min ELSE IF RLt(X, Max) THEN X ELSE Max

\* FMath::Max(A, B): A >= B ? A : B
FMath_Max(A, B) == IF RLe(B, A) THEN A ELSE B

FMath_Min(A, B) == IF RLe(A, B) THEN A ELSE B

\* FVector as <<X, Y, Z>>
Axes == 1 .. 3

FVector_GetMin(V) == FMath_Min(V[1], FMath_Min(V[2], V[3]))

FVector_GetMax(V) == FMath_Max(V[1], FMath_Max(V[2], V[3]))

FVector_Splat(F) == <<F, F, F>>

\* FVector *= FVector is component-wise
FVector_Mul(A, B) == [i \in Axes |-> RMul(A[i], B[i])]

OneVector == FVector_Splat(<<1, 1>>)

kRelativeScaleFloor == <<1, 100>>

kRelativeScaleCeiling == <<1, 1>>

\* ------------------------------------------------------------------ state

VARIABLES
    bRelativeToInitialScale,  \* scale bounds are multiples of InitialScale
    MinScale,                 \* rational
    MaxScale,                 \* rational
    InitialScale,             \* FVector
    bHasOwner,                \* GetOwner() != nullptr
    OwnerTransform,           \* the owning actor's transform
    bHasBegunPlay,            \* BeginPlay has run
    BeginPlayScale,           \* history: the owner's scale BeginPlay read
    bAutoDetectConstraints,
    SelectedConstraints,      \* TArray<FComponentReference>
    ActiveConstraints,        \* TArray<UUxtTransformConstraint*>
    TargetComponent,          \* "null" or "target"
    OwnerComponents,          \* constraint components attached to the owner
    Initialized,              \* constraints Initialize() was called on since they last became active
    Applied,                  \* the last operation, when it was ApplyConstraints: its call record
    LastOp,                   \* history: the last operation and its argument
    SwitchLog                 \* history: the scale fields before each of the last consecutive mode-property switches

scaleVars == <<bRelativeToInitialScale, MinScale, MaxScale, InitialScale>>

ownerVars == <<bHasOwner, OwnerTransform, bHasBegunPlay, BeginPlayScale>>

consVars == <<bAutoDetectConstraints, SelectedConstraints, ActiveConstraints,
              TargetComponent, OwnerComponents, Initialized>>

vars == <<scaleVars, ownerVars, consVars, Applied, LastOp, SwitchLog>>

NoCall == [op |-> "none"]

NoArg == "-"

\* --------------------------------------------------------- scale policy

\* ApplyImplicitScalingConstraint with the Y axis clamped by the X bounds.
ApplyImplicitScalingConstraint_YByX(Transform, MinScaleVec, MaxScaleVec) ==
    [Transform EXCEPT !.Scale3D =
        [i \in Axes |-> IF i = 2
                          THEN FMath_Clamp(Transform.Scale3D[2], MinScaleVec[1], MaxScaleVec[1])
                          ELSE FMath_Clamp(Transform.Scale3D[i], MinScaleVec[i], MaxScaleVec[i])]]

\* ApplyImplicitScalingConstraint: clamp each axis of the scale, leave the rest.
ApplyImplicitScalingConstraint(Transform, MinScaleVec, MaxScaleVec) ==
    [Transform EXCEPT !.Scale3D =
        [i \in Axes |-> FMath_Clamp(Transform.Scale3D[i], MinScaleVec[i], MaxScaleVec[i])]]

\* GetMinScaleVec scaling every axis by the smallest axis of InitialScale.
GetMinScaleVec_Uniform(rel, min, init) ==
    IF rel THEN FVector_Splat(RMul(min, FVector_GetMin(init))) ELSE FVector_Splat(min)

\* GetMinScaleVec / GetMaxScaleVec, as functions of the fields they read.
GetMinScaleVec(rel, min, init) ==
    IF rel THEN FVector_Mul(FVector_Splat(min), init) ELSE FVector_Splat(min)

GetMaxScaleVec(rel, max, init) ==
    IF rel THEN FVector_Mul(FVector_Splat(max), init) ELSE FVector_Splat(max)

\* SetMinScale clamping against MaxScale in relative mode too.
SetMinScale_CeilingMax(rel, max, Value) == FMath_Clamp(Value, kRelativeScaleFloor, max)

\* The value SetMinScale(Value) stores, given the mode flag and MaxScale.
SetMinScale_Stored(rel, max, Value) ==
    FMath_Clamp(Value, kRelativeScaleFloor, IF rel THEN kRelativeScaleCeiling ELSE max)

\* SetMaxScale without the floor in absolute mode.
SetMaxScale_NoFloor(rel, min, Value) ==
    IF rel THEN FMath_Max(Value, kRelativeScaleCeiling) ELSE Value

\* The value SetMaxScale(Value) stores, given the mode flag and MinScale.
SetMaxScale_Stored(rel, min, Value) ==
    FMath_Max(Value, IF rel THEN kRelativeScaleCeiling ELSE min)

\* ConvertMinMaxScaleValues: SetMinScale then SetMaxScale, each under the
\* mode flag as it is when the conversion runs; SetMaxScale sees the new MinScale.
ConvertMinMaxScaleValues(rel, min, max, init) ==
    LET Min == FVector_GetMin(init)
        Max == FVector_GetMax(init)
        newMin == SetMinScale_Stored(rel, max, IF rel THEN RDiv(min, Min) ELSE RMul(min, Min))
        newMax == SetMaxScale_Stored(rel, newMin, IF rel THEN RDiv(max, Max) ELSE RMul(max, Max))
    IN  [MinScale |-> newMin, MaxScale |-> newMax]

WithinCap(max) == RLe(max, <<MaxScaleCap, 1>>)

\* Every operation but ApplyConstraints clears the call record.
Record(op, arg) ==
    /\ LastOp' = [op |-> op, arg |-> arg]
    /\ Applied' = NoCall
    /\ SwitchLog' = <<>>

SetMinScale(Value) ==
    /\ MinScale' = SetMinScale_Stored(bRelativeToInitialScale, MaxScale, Value)
    /\ Record("SetMinScale", NoArg)
    /\ UNCHANGED <<bRelativeToInitialScale, MaxScale, InitialScale, ownerVars, consVars>>

SetMaxScale(Value) ==
    /\ MaxScale' = SetMaxScale_Stored(bRelativeToInitialScale, MinScale, Value)
    /\ WithinCap(MaxScale')
    /\ Record("SetMaxScale", NoArg)
    /\ UNCHANGED <<bRelativeToInitialScale, MinScale, InitialScale, ownerVars, consVars>>

SetRelativeToInitialScale(Value) ==
    /\ IF bRelativeToInitialScale # Value
         THEN LET c == ConvertMinMaxScaleValues(bRelativeToInitialScale, MinScale, MaxScale, InitialScale)
              IN  /\ MinScale' = c.MinScale
                  /\ MaxScale' = c.MaxScale
         ELSE UNCHANGED <<MinScale, MaxScale>>
    /\ WithinCap(MaxScale')
    /\ Record("SetRelativeToInitialScale", Value)
    /\ UNCHANGED <<bRelativeToInitialScale, InitialScale, ownerVars, consVars>>

OwnerScale == IF bHasOwner THEN OwnerTransform.Scale3D ELSE OneVector

ScaleFields == [rel |-> bRelativeToInitialScale, min |-> MinScale, max |-> MaxScale,
                init |-> InitialScale]

\* PostEditChangeProperty, property bRelativeToInitialScale: the editor has
\* flipped the flag; the handler re-reads the owner's scale and converts.
PostEditChangeProperty_bRelativeToInitialScale ==
    /\ ~bHasBegunPlay
    /\ bRelativeToInitialScale' = ~bRelativeToInitialScale
    /\ InitialScale' = OwnerScale
    /\ LET c == ConvertMinMaxScaleValues(~bRelativeToInitialScale, MinScale, MaxScale, OwnerScale)
       IN  /\ MinScale' = c.MinScale
           /\ MaxScale' = c.MaxScale
    /\ WithinCap(MaxScale')
    /\ LastOp' = [op |-> "PostEdit_bRelativeToInitialScale", arg |-> NoArg]
    /\ Applied' = NoCall
    /\ SwitchLog' = IF SwitchLog = <<>> THEN <<ScaleFields>> ELSE <<SwitchLog[Len(SwitchLog)], ScaleFields>>
    /\ UNCHANGED <<ownerVars, consVars>>

\* PostEditChangeProperty, property MinScale: the editor has written Value;
\* the handler passes the field through its setter.
PostEditChangeProperty_MinScale(Value) ==
    /\ ~bHasBegunPlay
    /\ MinScale' = SetMinScale_Stored(bRelativeToInitialScale, MaxScale, Value)
    /\ Record("SetMinScale", NoArg)
    /\ UNCHANGED <<bRelativeToInitialScale, MaxScale, InitialScale, ownerVars, consVars>>

PostEditChangeProperty_MaxScale(Value) ==
    /\ ~bHasBegunPlay
    /\ MaxScale' = SetMaxScale_Stored(bRelativeToInitialScale, MinScale, Value)
    /\ WithinCap(MaxScale')
    /\ Record("SetMaxScale", NoArg)
    /\ UNCHANGED <<bRelativeToInitialScale, MinScale, InitialScale, ownerVars, consVars>>

\* BeginPlay writing the owner's transform back as it read it.
BeginPlay_Unconstrained(ReferenceTransform) == ReferenceTransform

\* The transform BeginPlay writes back to the owner.
BeginPlay_ConstrainedTransform(ReferenceTransform) ==
    ApplyImplicitScalingConstraint(
        ReferenceTransform,
        GetMinScaleVec(bRelativeToInitialScale, MinScale, ReferenceTransform.Scale3D),
        GetMaxScaleVec(bRelativeToInitialScale, MaxScale, ReferenceTransform.Scale3D))

BeginPlay ==
    /\ ~bHasBegunPlay
    /\ bHasBegunPlay' = TRUE
    /\ InitialScale' = OwnerScale
    /\ BeginPlayScale' = OwnerScale
    /\ OwnerTransform' = IF bHasOwner THEN BeginPlay_ConstrainedTransform(OwnerTransform)
                                      ELSE OwnerTransform
    /\ Record("BeginPlay", NoArg)
    /\ UNCHANGED <<bRelativeToInitialScale, MinScale, MaxScale, bHasOwner, consVars>>

\* ------------------------------------------------- transform constraints

\* The transform-constraint components that exist in the scene.
Constraints == {"c1", "c2", "c3"}

NullComponent == "null"

\* UUxtTransformConstraint::GetConstraintType
GetConstraintType(c) == IF c = "c3" THEN "Translation" ELSE "Scaling"

\* UUxtTransformConstraint::HandType, a mask of EUxtGrabMode
HandType(c) == IF c = "c2" THEN {"OneHanded"} ELSE {"OneHanded", "TwoHanded"}

\* UUxtTransformConstraint::InteractionMode, a mask of EUxtInteractionMode
InteractionMode(c) == IF c = "c1" THEN {"Near", "Far"} ELSE {"Far"}

\* UUxtTransformConstraint::ApplyConstraint: c1 makes Y follow X, c2 pins X
\* to 1, c3 pins the location to the origin.
ApplyConstraint(c, Transform) ==
    CASE c = "c1" -> [Transform EXCEPT !.Scale3D[2] = Transform.Scale3D[1]]
      [] c = "c2" -> [Transform EXCEPT !.Scale3D[1] = <<1, 1>>]
      [] OTHER    -> [Transform EXCEPT !.Location = 0]

\* The component references a caller may select; "rNone" names a component
\* that is no transform constraint.
References == {"r1", "r2", "rNone"}

Referent(r) == CASE r = "r1" -> "c1" [] r = "r2" -> "c2" [] OTHER -> NullComponent

\* Cast<UUxtTransformConstraint>(ConstraintReference.GetComponent(GetOwner()))
ResolveConstraint(r) ==
    IF Referent(r) \in OwnerComponents THEN Referent(r) ELSE NullComponent

Range(s) == {s[i] : i \in 1 .. Len(s)}

RECURSIVE SelectSeq2(_, _)
SelectSeq2(s, keep) ==
    IF s = <<>> THEN <<>>
    ELSE (IF Head(s) \in keep THEN <<Head(s)>> ELSE <<>>) \o SelectSeq2(Tail(s), keep)

\* AActor::GetComponents<UUxtTransformConstraint> lists the attached constraints in this order.
ComponentOrder == <<"c1", "c2", "c3">>

\* GetConstraints, as a function of the mode flag and the selected list.
GetConstraints(auto, selected) ==
    IF auto
      THEN (IF bHasOwner THEN SelectSeq2(ComponentOrder, OwnerComponents) ELSE <<>>)
      ELSE LET resolved == [i \in 1 .. Len(selected) |-> ResolveConstraint(selected[i])]
           IN  SelectSeq2(resolved, Constraints)

\* UpdateActiveConstraints replacing the list only when a constraint is new.
UpdateActiveConstraints_OnlyNew(target, active, constraints) ==
    IF target = NullComponent
      THEN [Active |-> active, Inits |-> {}]
      ELSE [Active |-> IF Range(constraints) \ Range(active) # {} THEN constraints ELSE active,
            Inits  |-> Range(constraints) \ Range(active)]

\* UpdateActiveConstraints without the early return on a null target.
UpdateActiveConstraints_NoTargetCheck(target, active, constraints) ==
    LET ExistingConstraints ==
            Cardinality({i \in 1 .. Len(constraints) : constraints[i] \in Range(active)})
        NewConstraints == Len(constraints) - ExistingConstraints
    IN  [Active |-> IF NewConstraints > 0 \/ ExistingConstraints < Len(active)
                      THEN constraints ELSE active,
         Inits  |-> Range(constraints) \ Range(active)]

\* UpdateActiveConstraints without the Initialize call on a new constraint.
UpdateActiveConstraints_NoInitialize(target, active, constraints) ==
    IF target = NullComponent
      THEN [Active |-> active, Inits |-> {}]
      ELSE LET ExistingConstraints ==
                   Cardinality({i \in 1 .. Len(constraints) : constraints[i] \in Range(active)})
               NewConstraints == Len(constraints) - ExistingConstraints
           IN  [Active |-> IF NewConstraints > 0 \/ ExistingConstraints < Len(active)
                             THEN constraints ELSE active,
                Inits  |-> {}]

\* UpdateActiveConstraints, given the list GetConstraints returns: the new
\* active list and the constraints it calls Initialize on.
UpdateActiveConstraints(target, active, constraints) ==
    IF target = NullComponent
      THEN [Active |-> active, Inits |-> {}]
      ELSE LET ExistingConstraints ==
                   Cardinality({i \in 1 .. Len(constraints) : constraints[i] \in Range(active)})
               NewConstraints == Len(constraints) - ExistingConstraints
           IN  [Active |-> IF NewConstraints > 0 \/ ExistingConstraints < Len(active)
                             THEN constraints ELSE active,
                Inits  |-> Range(constraints) \ Range(active)]

\* The tail shared by the operations that end in UpdateActiveConstraints().
Update(auto, selected) ==
    LET u == UpdateActiveConstraints(TargetComponent, ActiveConstraints, GetConstraints(auto, selected))
    IN  /\ ActiveConstraints' = u.Active
        /\ Initialized' = (Initialized \cap Range(u.Active)) \cup u.Inits

SetAutoDetectConstraints(bNewAutoDetectConstraints) ==
    /\ bAutoDetectConstraints' = bNewAutoDetectConstraints
    /\ Update(bNewAutoDetectConstraints, SelectedConstraints)
    /\ Record("SetAutoDetectConstraints", bNewAutoDetectConstraints)
    /\ UNCHANGED <<scaleVars, ownerVars, SelectedConstraints, TargetComponent, OwnerComponents>>

AddConstraint(NewConstraint) ==
    /\ Len(SelectedConstraints) < MaxSelected
    /\ SelectedConstraints' = Append(SelectedConstraints, NewConstraint)
    /\ Update(bAutoDetectConstraints, SelectedConstraints')
    /\ Record("AddConstraint", NoArg)
    /\ UNCHANGED <<scaleVars, ownerVars, bAutoDetectConstraints, TargetComponent, OwnerComponents>>

\* TArray::Remove removes every element equal to the argument.
RemoveConstraint(NewConstraint) ==
    /\ SelectedConstraints' = SelectSeq2(SelectedConstraints, References \ {NewConstraint})
    /\ Update(bAutoDetectConstraints, SelectedConstraints')
    /\ Record("RemoveConstraint", NewConstraint)
    /\ UNCHANGED <<scaleVars, ownerVars, bAutoDetectConstraints, TargetComponent, OwnerComponents>>

TickComponent ==
    /\ IF bAutoDetectConstraints
         THEN Update(bAutoDetectConstraints, SelectedConstraints)
         ELSE UNCHANGED <<ActiveConstraints, Initialized>>
    /\ Record("TickComponent", NoArg)
    /\ UNCHANGED <<scaleVars, ownerVars, bAutoDetectConstraints, SelectedConstraints,
                   TargetComponent, OwnerComponents>>

InitializeConstraints ==
    /\ TargetComponent' = "target"
    /\ ActiveConstraints' = GetConstraints(bAutoDetectConstraints, SelectedConstraints)
    /\ Initialized' = Range(ActiveConstraints')
    /\ Record("InitializeConstraints", NoArg)
    /\ UNCHANGED <<scaleVars, ownerVars, bAutoDetectConstraints, SelectedConstraints, OwnerComponents>>

\* The owning actor gains or loses a transform-constraint component.
AttachConstraint(c) ==
    /\ bHasOwner
    /\ c \notin OwnerComponents
    /\ OwnerComponents' = OwnerComponents \cup {c}
    /\ Record("AttachConstraint", NoArg)
    /\ UNCHANGED <<scaleVars, ownerVars, bAutoDetectConstraints, SelectedConstraints,
                   ActiveConstraints, TargetComponent, Initialized>>

DetachConstraint(c) ==
    /\ c \in OwnerComponents
    /\ OwnerComponents' = OwnerComponents \ {c}
    /\ Record("DetachConstraint", NoArg)
    /\ UNCHANGED <<scaleVars, ownerVars, bAutoDetectConstraints, SelectedConstraints,
                   ActiveConstraints, TargetComponent, Initialized>>

\* ------------------------------------------------------ ApplyConstraints

GrabModeOf(bIsOneHanded) == IF bIsOneHanded THEN "OneHanded" ELSE "TwoHanded"

InteractionModeOf(bIsNear) == IF bIsNear THEN "Near" ELSE "Far"

\* The loop condition without the test of the interaction-mode mask.
Matches_IgnoreInteraction(c, TransformMode, bIsOneHanded, bIsNear) ==
    /\ GetConstraintType(c) = TransformMode
    /\ GrabModeOf(bIsOneHanded) \in HandType(c)

\* The condition under which the loop of ApplyConstraints invokes a constraint.
Matches(c, TransformMode, bIsOneHanded, bIsNear) ==
    /\ GetConstraintType(c) = TransformMode
    /\ GrabModeOf(bIsOneHanded) \in HandType(c)
    /\ InteractionModeOf(bIsNear) \in InteractionMode(c)

\* The loop of ApplyConstraints over the active list: the transform it ends
\* with and, in order, each constraint invoked with the transform it was given.
RECURSIVE ApplyLoop(_, _, _, _, _, _)
ApplyLoop(active, Transform, Calls, TransformMode, bIsOneHanded, bIsNear) ==
    IF active = <<>>
      THEN [Transform |-> Transform, Calls |-> Calls]
      ELSE IF Matches(Head(active), TransformMode, bIsOneHanded, bIsNear)
             THEN ApplyLoop(Tail(active), ApplyConstraint(Head(active), Transform),
                            Append(Calls, [Constraint |-> Head(active), Input |-> Transform]),
                            TransformMode, bIsOneHanded, bIsNear)
             ELSE ApplyLoop(Tail(active), Transform, Calls, TransformMode, bIsOneHanded, bIsNear)

\* ApplyConstraints with the baseline clamp in every transform mode.
ApplyConstraints_AlwaysClamp(Transform, TransformMode, bIsOneHanded, bIsNear) ==
    ApplyLoop(ActiveConstraints,
              ApplyImplicitScalingConstraint(
                  Transform,
                  GetMinScaleVec(bRelativeToInitialScale, MinScale, InitialScale),
                  GetMaxScaleVec(bRelativeToInitialScale, MaxScale, InitialScale)),
              <<>>, TransformMode, bIsOneHanded, bIsNear)

\* ApplyConstraints with the baseline clamp after the loop instead of before it.
ApplyConstraints_ClampLast(Transform, TransformMode, bIsOneHanded, bIsNear) ==
    LET r == ApplyLoop(ActiveConstraints, Transform, <<>>, TransformMode, bIsOneHanded, bIsNear)
    IN  [r EXCEPT !.Transform =
            IF TransformMode = "Scaling"
              THEN ApplyImplicitScalingConstraint(
                       r.Transform,
                       GetMinScaleVec(bRelativeToInitialScale, MinScale, InitialScale),
                       GetMaxScaleVec(bRelativeToInitialScale, MaxScale, InitialScale))
              ELSE r.Transform]

\* ApplyConstraints as a function of its arguments and the component's state.
ApplyConstraints_Result(Transform, TransformMode, bIsOneHanded, bIsNear) ==
    LET Clamped == IF TransformMode = "Scaling"
                     THEN ApplyImplicitScalingConstraint(
                              Transform,
                              GetMinScaleVec(bRelativeToInitialScale, MinScale, InitialScale),
                              GetMaxScaleVec(bRelativeToInitialScale, MaxScale, InitialScale))
                     ELSE Transform
    IN  ApplyLoop(ActiveConstraints, Clamped, <<>>, TransformMode, bIsOneHanded, bIsNear)

ApplyConstraints(Transform, TransformMode, bIsOneHanded, bIsNear) ==
    /\ LET r == ApplyConstraints_Result(Transform, TransformMode, bIsOneHanded, bIsNear)
       IN  Applied' = [op |-> "ApplyConstraints", Transform |-> Transform,
                       TransformMode |-> TransformMode, bIsOneHanded |-> bIsOneHanded,
                       bIsNear |-> bIsNear, Result |-> r.Transform, Calls |-> r.Calls]
    /\ LastOp' = [op |-> "ApplyConstraints", arg |-> NoArg]
    /\ UNCHANGED SwitchLog
    /\ UNCHANGED <<scaleVars, ownerVars, consVars>>

\* ------------------------------------------------------- inputs and Init

\* Values the bounds start from and the setters are called with.
BoundValues == {<<1, 5>>, <<1, 1>>, <<2, 1>>}

ArgValues == {<<0, 1>>, <<1, 2>>, <<3, 1>>}

\* The bounds a component starts with: what its setters and the property
\* editor keep, 0.01 <= MinScale <= MaxScale and, in relative mode, MinScale <= 1 <= MaxScale.
InitialBounds ==
    {b \in [rel : BOOLEAN, min : BoundValues, max : BoundValues] :
        /\ RLe(kRelativeScaleFloor, b.min)
        /\ RLe(b.min, b.max)
        /\ b.rel => RLe(b.min, kRelativeScaleCeiling) /\ RLe(kRelativeScaleCeiling, b.max)}

\* Positive owner scales, uniform and not.
OwnerScales == {OneVector, FVector_Splat(<<2, 1>>), <<(<<1, 2>>), (<<1, 1>>), (<<2, 1>>)>>}

MakeTransform(Location, Scale3D) == [Location |-> Location, Rotation |-> 0, Scale3D |-> Scale3D]

\* Transforms in progress handed to ApplyConstraints.
ProbeTransforms == {MakeTransform(1, FVector_Splat(<<1, 200>>)),
                    MakeTransform(1, <<(<<1, 2>>), (<<1, 1>>), (<<8, 1>>)>>)}

InitCommon ==
    /\ InitialScale = OneVector
    /\ bHasBegunPlay = FALSE
    /\ BeginPlayScale = OneVector
    /\ ActiveConstraints = <<>>
    /\ TargetComponent = NullComponent
    /\ Initialized = {}
    /\ Applied = NoCall
    /\ LastOp = [op |-> "none", arg |-> NoArg]
    /\ SwitchLog = <<>>

\* Any bounds, any owner; one auto-detected translation constraint.
Init ==
    /\ InitCommon
    /\ \E b \in InitialBounds :
          /\ bRelativeToInitialScale = b.rel
          /\ MinScale = b.min
          /\ MaxScale = b.max
    /\ bHasOwner \in BOOLEAN
    /\ \E v \in OwnerScales :
          OwnerTransform = MakeTransform(0, IF bHasOwner THEN v ELSE OneVector)
    /\ bAutoDetectConstraints = TRUE
    /\ SelectedConstraints = <<>>
    /\ OwnerComponents = IF bHasOwner THEN {"c3"} ELSE {}

\* A far, one-handed manipulation of the owner's transform or of a probe.
ApplyAny ==
    \E Transform \in ProbeTransforms \cup {OwnerTransform}, TransformMode \in {"Scaling", "Translation"} :
        ApplyConstraints(Transform, TransformMode, TRUE, FALSE)

\* The scale policy: the setters, the editor, BeginPlay and the application.
Next ==
    \/ \E Value \in ArgValues : SetMinScale(Value)
    \/ \E Value \in ArgValues : SetMaxScale(Value)
    \/ \E Value \in BOOLEAN : SetRelativeToInitialScale(Value)
    \/ PostEditChangeProperty_bRelativeToInitialScale
    \/ \E Value \in ArgValues : PostEditChangeProperty_MinScale(Value)
    \/ \E Value \in ArgValues : PostEditChangeProperty_MaxScale(Value)
    \/ BeginPlay
    \/ InitializeConstraints
    \/ ApplyAny

Spec == Init /\ [][Next]_vars

\* A fixed scale policy; any constraint configuration.
InitCons ==
    /\ InitCommon
    /\ bRelativeToInitialScale = TRUE
    /\ MinScale = <<1, 5>>
    /\ MaxScale = <<2, 1>>
    /\ bHasOwner \in BOOLEAN
    /\ OwnerTransform = MakeTransform(0, OneVector)
    /\ bAutoDetectConstraints \in BOOLEAN
    /\ SelectedConstraints = <<>>
    /\ OwnerComponents \in (IF bHasOwner THEN SUBSET Constraints ELSE {{}})

ApplyProbe ==
    \E Transform \in ProbeTransforms, bIsOneHanded \in BOOLEAN :
        ApplyConstraints(Transform, "Scaling", bIsOneHanded, FALSE)

\* The constraint bookkeeping: selection, detection, initialization and application.
NextCons ==
    \/ \E b \in BOOLEAN : SetAutoDetectConstraints(b)
    \/ \E r \in References : AddConstraint(r)
    \/ \E r \in References : RemoveConstraint(r)
    \/ TickComponent
    \/ InitializeConstraints
    \/ \E c \in Constraints : AttachConstraint(c)
    \/ \E c \in Constraints : DetachConstraint(c)
    \/ ApplyProbe

SpecCons == InitCons /\ [][NextCons]_vars

\* EUxtTransformMode
TransformModes == {"Translation", "Rotation", "Scaling"}

\* Selections made in the editor before play.
DesignSelections == {<<>>, <<"r1">>, <<"r2", "r1">>, <<"r1", "rNone", "r2">>}

\* A fixed scale policy and a designed selection; any attached constraints.
InitApply ==
    /\ InitCommon
    /\ bRelativeToInitialScale = TRUE
    /\ MinScale = <<1, 5>>
    /\ MaxScale = <<2, 1>>
    /\ bHasOwner \in BOOLEAN
    /\ OwnerTransform = MakeTransform(0, OneVector)
    /\ bAutoDetectConstraints \in BOOLEAN
    /\ SelectedConstraints \in DesignSelections
    /\ OwnerComponents \in (IF bHasOwner THEN SUBSET Constraints ELSE {{}})

\* A manipulation in any transform mode, with either hand count, near or far.
ApplyAll ==
    \E Transform \in ProbeTransforms, TransformMode \in TransformModes,
       bIsOneHanded \in BOOLEAN, bIsNear \in BOOLEAN :
        ApplyConstraints(Transform, TransformMode, bIsOneHanded, bIsNear)

\* The application of constraints under every manipulation, over the active
\* lists that detection and initialization produce.
NextApply ==
    \/ \E b \in BOOLEAN : SetAutoDetectConstraints(b)
    \/ TickComponent
    \/ InitializeConstraints
    \/ \E c \in Constraints : AttachConstraint(c)
    \/ \E c \in Constraints : DetachConstraint(c)
    \/ ApplyAll

SpecApply == InitApply /\ [][NextApply]_vars

\* ------------------------------------------------------------ properties

\* x clamped into [lo, hi], for lo <= hi.
ClampInto(x, lo, hi) == IF RLt(x, lo) THEN lo ELSE IF RLt(hi, x) THEN hi ELSE x

\* The effective bounds on an axis, written out from the fields.
LowerBound(i) == IF bRelativeToInitialScale THEN RMul(MinScale, InitialScale[i]) ELSE MinScale

UpperBound(i) == IF bRelativeToInitialScale THEN RMul(MaxScale, InitialScale[i]) ELSE MaxScale

IsScalingCall == Applied.op = "ApplyConstraints" /\ Applied.TransformMode = "Scaling"

OwnerWithinBounds ==
    \A i \in Axes : /\ RLe(LowerBound(i), OwnerTransform.Scale3D[i])
                    /\ RLe(OwnerTransform.Scale3D[i], UpperBound(i))

C8_Before(f) ==
    /\ f.rel
    /\ RLe(kRelativeScaleFloor, f.min)
    /\ RLe(f.min, kRelativeScaleCeiling)
    /\ RLe(kRelativeScaleCeiling, f.max)
    /\ f.init = OwnerScale
    /\ f.init = FVector_Splat(f.init[1])
    /\ RLe(kRelativeScaleFloor, RMul(f.min, f.init[1]))

C8_SameEffectiveBounds(f) ==
    /\ GetMinScaleVec(bRelativeToInitialScale, MinScale, InitialScale) = GetMinScaleVec(f.rel, f.min, f.init)
    /\ GetMaxScaleVec(bRelativeToInitialScale, MaxScale, InitialScale) = GetMaxScaleVec(f.rel, f.max, f.init)

\* C8: switching the mode property from relative to absolute turns the
\* bounds into MinScale * s and MaxScale * s, switching back restores the
\* original MinScale and MaxScale, and the effective per-axis bounds are the
\* same after each switch as before the first.
C8_RoundTrip ==
    /\ (Len(SwitchLog) = 1 /\ C8_Before(SwitchLog[1])) =>
          /\ ~bRelativeToInitialScale
          /\ MinScale = RMul(SwitchLog[1].min, SwitchLog[1].init[1])
          /\ MaxScale = RMul(SwitchLog[1].max, SwitchLog[1].init[1])
          /\ C8_SameEffectiveBounds(SwitchLog[1])
    /\ (Len(SwitchLog) = 2 /\ C8_Before(SwitchLog[1])) =>
          /\ bRelativeToInitialScale
          /\ MinScale = SwitchLog[1].min
          /\ MaxScale = SwitchLog[1].max
          /\ C8_SameEffectiveBounds(SwitchLog[1])

\* C9: SetRelativeToInitialScale(V) leaves the component in mode V, with
\* MinScale and MaxScale converted in the direction old mode -> V; a call
\* with V equal to the current mode changes nothing.
C9_FlagTakesEffect ==
    [][ LastOp'.op = "SetRelativeToInitialScale" =>
          LET V == LastOp'.arg
              c == ConvertMinMaxScaleValues(V, MinScale, MaxScale, InitialScale)
          IN  /\ bRelativeToInitialScale' = V
              /\ bRelativeToInitialScale = V => UNCHANGED scaleVars
              /\ bRelativeToInitialScale # V => (MinScale' = c.MinScale /\ MaxScale' = c.MaxScale) ]_vars

HasTarget == TargetComponent # NullComponent

\* C3: in manual mode with a target, after AddConstraint or RemoveConstraint
\* the active constraints are exactly those the selected list resolves to,
\* and the constraint a removed reference names is no longer active.
C3_ManualSelection ==
    (~bAutoDetectConstraints /\ HasTarget /\ LastOp.op \in {"AddConstraint", "RemoveConstraint"}) =>
        /\ Range(ActiveConstraints) = Range(GetConstraints(FALSE, SelectedConstraints))
        /\ LastOp.op = "RemoveConstraint" => Referent(LastOp.arg) \notin Range(ActiveConstraints)

\* C4: in auto-detect mode with a target, after TickComponent and after
\* SetAutoDetectConstraints(true) the active constraints are exactly the
\* constraint components attached to the owner.
C4_AutoDetection ==
    ( /\ bAutoDetectConstraints
      /\ HasTarget
      /\ \/ LastOp.op = "TickComponent"
         \/ LastOp.op = "SetAutoDetectConstraints" /\ LastOp.arg = TRUE ) =>
        Range(ActiveConstraints) = OwnerComponents

\* A tick that found some, not all, constraints attached, with a manual
\* list that resolves to something else.
C4_Witness ==
    /\ bAutoDetectConstraints
    /\ HasTarget
    /\ LastOp.op = "TickComponent"
    /\ ActiveConstraints # <<>>
    /\ OwnerComponents # Constraints
    /\ SelectedConstraints # <<>>
    /\ Range(GetConstraints(FALSE, SelectedConstraints)) # OwnerComponents

\* The transform the first matching constraint is to receive.
C5_Baseline ==
    IF Applied.TransformMode = "Scaling"
      THEN [Applied.Transform EXCEPT !.Scale3D =
               [i \in Axes |-> ClampInto(Applied.Transform.Scale3D[i], LowerBound(i), UpperBound(i))]]
      ELSE Applied.Transform

\* C5: the baseline clamp comes first; the matching active constraints are
\* invoked in the order of the active list, the first with the clamped
\* transform and each later one with the output of the one before; the
\* call returns the output of the last.
C5_Ordering ==
    Applied.op = "ApplyConstraints" =>
        LET calls == Applied.Calls
            n == Len(calls)
            Test(c) == Matches(c, Applied.TransformMode, Applied.bIsOneHanded, Applied.bIsNear)
        IN  /\ [i \in 1 .. n |-> calls[i].Constraint] = SelectSeq(ActiveConstraints, Test)
            /\ \A i \in 1 .. n :
                  calls[i].Input = IF i = 1 THEN C5_Baseline
                                   ELSE ApplyConstraint(calls[i - 1].Constraint, calls[i - 1].Input)
            /\ Applied.Result = IF n = 0 THEN C5_Baseline
                                ELSE ApplyConstraint(calls[n].Constraint, calls[n].Input)

\* A call that clamped its input and then ran c2 before c1, each changing the transform.
C5_Witness ==
    /\ Applied.op = "ApplyConstraints"
    /\ Len(Applied.Calls) = 2
    /\ Applied.Calls[1].Constraint = "c2"
    /\ Applied.Calls[1].Input # Applied.Transform
    /\ Applied.Calls[2].Input # Applied.Calls[1].Input
    /\ Applied.Result # Applied.Calls[2].Input

\* C6: while there is no target component nothing is active and nothing has
\* been initialized; a target appears only through InitializeConstraints,
\* which makes the constraints GetConstraints returns active and initializes them.
C6_NoUpdateWithoutTarget ==
    [][ /\ ~HasTarget => (ActiveConstraints = <<>> /\ Initialized = {})
        /\ ~HasTarget' => (ActiveConstraints' = <<>> /\ Initialized' = {})
        /\ (~HasTarget /\ HasTarget') =>
              /\ LastOp'.op = "InitializeConstraints"
              /\ ActiveConstraints' = GetConstraints(bAutoDetectConstraints, SelectedConstraints)
              /\ Initialized' = Range(ActiveConstraints') ]_vars

\* Manual mode, no target: a resolvable constraint has just been added and is not active.
C6_Witness ==
    /\ ~HasTarget
    /\ ~bAutoDetectConstraints
    /\ LastOp.op = "AddConstraint"
    /\ GetConstraints(FALSE, SelectedConstraints) # <<>>
    /\ ActiveConstraints = <<>>

\* C11: in relative mode SetMinScale(v) stores v clamped into [0.01, 1] and
\* SetMaxScale(v) stores max(v, 1), whatever the other bound is; in absolute
\* mode SetMinScale(v) stores v clamped into [0.01, MaxScale] and
\* SetMaxScale(v) stores max(v, MinScale); each setter leaves the other
\* bound and the mode flag as they were.
C11_SetterClamping ==
    [][ \A v \in ArgValues :
          /\ SetMinScale(v) =>
                /\ MinScale' = ClampInto(v, kRelativeScaleFloor,
                                         IF bRelativeToInitialScale THEN <<1, 1>> ELSE MaxScale)
                /\ UNCHANGED <<MaxScale, bRelativeToInitialScale>>
          /\ SetMaxScale(v) =>
                /\ MaxScale' = (IF bRelativeToInitialScale
                                  THEN (IF RLt(v, <<1, 1>>) THEN <<1, 1>> ELSE v)
                                  ELSE (IF RLt(v, MinScale) THEN MinScale ELSE v))
                /\ UNCHANGED <<MinScale, bRelativeToInitialScale>> ]_vars

\* Relative mode: a SetMinScale has just stored the ceiling 1 although
\* MaxScale is larger, after the bounds had been somewhere else.
C11_Witness ==
    /\ bRelativeToInitialScale
    /\ LastOp.op = "SetMinScale"
    /\ MinScale = <<1, 1>>
    /\ RLt(<<1, 1>>, MaxScale)
    /\ bHasBegunPlay

\* C12: every constraint in the active list has had Initialize called on it
\* since it last became active, and every constraint ApplyConstraints has
\* invoked is one of those.
C12_InitializedBeforeApplied ==
    /\ Range(ActiveConstraints) \subseteq Initialized
    /\ Applied.op = "ApplyConstraints" =>
          \A i \in 1 .. Len(Applied.Calls) : Applied.Calls[i].Constraint \in Initialized

\* Manual mode with c2 selected before c1: both are active and initialized,
\* and ApplyConstraints has invoked both.
C12_Witness ==
    /\ Applied.op = "ApplyConstraints"
    /\ ~bAutoDetectConstraints
    /\ ActiveConstraints = <<"c2", "c1">>
    /\ Len(Applied.Calls) = Len(ActiveConstraints)
    /\ Initialized = {"c1", "c2"}

\* The selection rule as the constraint's own properties state it: the type
\* is the call's transform mode, the hand-type mask holds the call's grab
\* mode, the interaction-mode mask holds the call's interaction mode.
Selects(c, call) ==
    /\ GetConstraintType(c) = call.TransformMode
    /\ (IF call.bIsOneHanded THEN "OneHanded" ELSE "TwoHanded") \in HandType(c)
    /\ (IF call.bIsNear THEN "Near" ELSE "Far") \in InteractionMode(c)

\* The transform left when only the selected constraints of a list act on it.
RECURSIVE OnlySelected(_, _, _)
OnlySelected(active, call, Transform) ==
    IF active = <<>> THEN Transform
    ELSE OnlySelected(Tail(active), call,
                      IF Selects(Head(active), call)
                        THEN ApplyConstraint(Head(active), Transform) ELSE Transform)

\* C13: ApplyConstraints invokes an active constraint exactly when its type
\* equals the transform mode, its hand-type mask contains the grab mode and
\* its interaction-mode mask contains the interaction mode, once per entry of
\* the active list; every other active constraint is skipped and has no
\* effect on the transform returned.
C13_SelectionFilter ==
    Applied.op = "ApplyConstraints" =>
        LET invoked == {Applied.Calls[i].Constraint : i \in 1 .. Len(Applied.Calls)}
            selected == {k \in 1 .. Len(ActiveConstraints) : Selects(ActiveConstraints[k], Applied)}
        IN  /\ invoked \subseteq Range(ActiveConstraints)
            /\ \A k \in 1 .. Len(ActiveConstraints) :
                  ActiveConstraints[k] \in invoked <=> k \in selected
            /\ Len(Applied.Calls) = Cardinality(selected)
            /\ Applied.Result = OnlySelected(ActiveConstraints, Applied, C5_Baseline)

\* A near, one-handed scaling over all three constraints: c1 was invoked and
\* changed the transform, c2 was skipped for its interaction mask alone, c3
\* for its type.
C13_Witness ==
    /\ Applied.op = "ApplyConstraints"
    /\ Applied.TransformMode = "Scaling"
    /\ Applied.bIsOneHanded
    /\ Applied.bIsNear
    /\ ActiveConstraints = <<"c1", "c2", "c3">>
    /\ Len(Applied.Calls) = 1
    /\ Applied.Calls[1].Constraint = "c1"
    /\ Applied.Result # Applied.Calls[1].Input

\* Some axis of the scale lies outside the effective bounds.
OutOfBounds(Scale3D) ==
    \E i \in Axes : RLt(Scale3D[i], LowerBound(i)) \/ RLt(UpperBound(i), Scale3D[i])

\* C14: an ApplyConstraints in a mode other than Scaling in which no active
\* constraint is selected returns its input as it was, whatever the input
\* scale; an ApplyConstraints in any mode leaves MinScale, MaxScale, the
\* mode flag, InitialScale, the selected list and the active list as they were.
C14_ClampOnlyWhenScaling ==
    [][ LastOp'.op = "ApplyConstraints" =>
          /\ UNCHANGED <<MinScale, MaxScale, bRelativeToInitialScale, InitialScale,
                         SelectedConstraints, ActiveConstraints>>
          /\ ( /\ Applied'.TransformMode # "Scaling"
               /\ \A k \in 1 .. Len(ActiveConstraints) : ~Selects(ActiveConstraints[k], Applied') )
             => Applied'.Result = Applied'.Transform ]_vars

\* A rotation past a non-empty active list, with an input scale outside the
\* bounds: nothing was invoked and the input came back as it was.
C14_Witness ==
    /\ Applied.op = "ApplyConstraints"
    /\ Applied.TransformMode = "Rotation"
    /\ ActiveConstraints # <<>>
    /\ Applied.Calls = <<>>
    /\ OutOfBounds(Applied.Transform.Scale3D)
    /\ Applied.Result = Applied.Transform

====
